---------------------------- MODULE Spec2Model ----------------------------
(***************************************************************************)
(* A model of adbc-cli (rust/adbc-cli/src/main.rs): the benchmark runner   *)
(* with its four client variants and its result aggregation, the table     *)
(* renderer print_results, and the interactive loop.                       *)
(*                                                                         *)
(* Text is modelled as a sequence of tokens (words and white space), a     *)
(* Duration as a natural number of the clock's smallest unit, an Option    *)
(* as a record [some, val], and a rendered cell by its length.  Writes to  *)
(* standard output are assumed to succeed.                                 *)
(***************************************************************************)
EXTENDS Integers, Sequences, FiniteSets, TLC

VARIABLES
    pc,              \* position of the running function
    outcome,         \* "running", "Ok", "Err" or "Panic": how main's callee ended
    error,           \* the message of the returned error (empty when none)
    \* ---- run_benchmark and the benchmark_* functions
    client,          \* --client
    iterations,      \* --iterations
    profile,         \* the Profile handed to the benchmark
    i,               \* loop index of `for i in 0..iterations`
    times,           \* Vec<Duration> of the samples
    total_rows,      \* the row counter of the benchmark function
    reader,          \* batches the current statement's reader still yields
    result,          \* the BenchmarkResult (NoResult until aggregation)
    summaryPrinted,  \* print_benchmark_result has run
    started,         \* number of iterations whose clock was started
    iterRows,        \* rows returned by the execution of the current iteration
    opened,          \* connections / sessions / api clients opened so far
    live,            \* connections currently alive
    clientBuilt,     \* SnowflakeClient::new has been called
    shape,           \* shape of the QueryResult the last api.exec returned
    \* ---- print_results
    source,          \* what the RecordBatchReader still yields
    first_batch,     \* the flag of print_results
    stdout,          \* lines written to standard output
    taken,           \* the batches taken from the reader so far
    \* ---- interactive_mode
    stdin,           \* lines standard input still holds (then end of input)
    stderr,          \* messages written to standard error
    executed,        \* the queries handed to execute_query, in order
    eofReads,        \* number of read_line calls that returned zero bytes
    input,           \* the line the last read_line call returned, if any
    consumed         \* the lines read from standard input so far, in order

benchVars == <<client, iterations, profile, i, times, total_rows, reader, result,
               summaryPrinted, started, iterRows, opened, live, clientBuilt, shape>>
renderVars == <<source, first_batch, stdout, taken>>
replVars == <<stdin, stderr, executed, eofReads, input, consumed>>
vars == <<pc, outcome, error, benchVars, renderVars, replVars>>

----------------------------------------------------------------------------
(* Bounds of the model *)

MaxIterations == 3
MaxDuration == 1
MaxBatches == 1
MaxRows == 1

----------------------------------------------------------------------------
(* Generic helpers *)

Min(a, b) == IF a < b THEN a ELSE b
Max(a, b) == IF a < b THEN b ELSE a

Some(v) == [some |-> TRUE, val |-> v]
NoneStr == [some |-> FALSE, val |-> ""]
NoneKey == [some |-> FALSE, val |-> <<>>]
NoneBool == [some |-> FALSE, val |-> FALSE]

RECURSIVE SeqSum(_)
SeqSum(s) == IF s = <<>> THEN 0 ELSE Head(s) + SeqSum(Tail(s))

RECURSIVE SeqMin(_)
SeqMin(s) == IF Len(s) = 1 THEN s[1] ELSE Min(Head(s), SeqMin(Tail(s)))

RECURSIVE SeqMax(_)
SeqMax(s) == IF Len(s) = 1 THEN s[1] ELSE Max(Head(s), SeqMax(Tail(s)))

SeqsUpTo(S, n) == UNION {[1..k -> S] : k \in 0..n}

(* str::trim: strip leading and trailing white space *)
IsSpace(t) == t \in {" ", "\n"}

RECURSIVE TrimStart(_)
TrimStart(s) ==
    IF s # <<>> /\ IsSpace(Head(s)) THEN TrimStart(Tail(s)) ELSE s

RECURSIVE TrimEnd(_)
TrimEnd(s) ==
    IF s # <<>> /\ IsSpace(s[Len(s)]) THEN TrimEnd(SubSeq(s, 1, Len(s) - 1)) ELSE s

Trim(s) == TrimEnd(TrimStart(s))

(* str::contains: pat occurs in s as a contiguous run *)
Contains(s, pat) ==
    \E k \in 0..(Len(s) - Len(pat)) : SubSeq(s, k + 1, k + Len(pat)) = pat


----------------------------------------------------------------------------
(* Inputs of a benchmark run *)

KnownClients ==
    {"adbc", "snowflake-connector-rs", "snowflake-api-arrow", "snowflake-api-json"}

Clients == KnownClients \cup {"odbc"}

(* Private keys as the profile file may hold them: PKCS#8, PKCS#1 and       *)
(* encrypted PKCS#8 PEM headers, and a text that is no private key.         *)
KeyTexts ==
    { <<"BEGIN", "PRIVATE KEY", "\n">>,
      <<"BEGIN", "RSA", "PRIVATE KEY">>,
      <<"BEGIN", "ENCRYPTED", "PRIVATE KEY", "\n">>,
      <<"BEGIN", "PUBLIC KEY">> }

Profiles ==
    [ account : {NoneStr, Some("acct")},
      user : {NoneStr, Some("usr")},
      password : {NoneStr, Some("pw")},
      private_key : {NoneKey} \cup {Some(k) : k \in KeyTexts},
      reuse_connections : {NoneBool, Some(TRUE)} ]

Durations == 0..MaxDuration
RowCounts == 0..MaxRows

(* What a statement's reader yields: the row counts of its batches *)
Readers == SeqsUpTo(RowCounts, MaxBatches)

(* snowflake_api::QueryResult *)
QueryResults ==
    {[shape |-> "Arrow", batches |-> b, is_array |-> FALSE, len |-> 0] : b \in Readers}
    \cup {[shape |-> "Json", batches |-> <<>>, is_array |-> TRUE, len |-> n] : n \in RowCounts}
    \cup {[shape |-> "Json", batches |-> <<>>, is_array |-> FALSE, len |-> 0],
          [shape |-> "Empty", batches |-> <<>>, is_array |-> FALSE, len |-> 0]}

NoResult == [client |-> "", iterations |-> 0, total_time |-> 0, avg_time |-> 0,
             min_time |-> 0, max_time |-> 0, rows |-> 0]

----------------------------------------------------------------------------
(* Error messages *)

NoError == <<>>
UnknownClientMsg == <<"Unknown client">>
LoadDriverMsg == <<"Failed to load Snowflake driver">>
BuildDatabaseMsg == <<"Failed to build database">>
CreateConnectionMsg == <<"Failed to create connection">>
CreateStatementMsg == <<"Failed to create statement">>
SetSqlQueryMsg == <<"Failed to set SQL query">>
ExecuteQueryMsg == <<"Failed to execute query">>
BatchErrorMsg == <<"arrow error">>
AccountRequiredMsg == <<"Account is required">>
UserRequiredMsg == <<"User is required">>
UnencryptedKeyMsg ==
    <<"snowflake-connector-rs", "KeyPair authentication requires an encrypted private key",
      "The provided key appears to be unencrypted">>
InvalidKeyMsg == <<"Invalid private key format">>
AuthRequiredMsg == <<"Either password or private_key is required for authentication">>
ClientErrorMsg == <<"snowflake_connector_rs error">>
ApiErrorMsg == <<"snowflake_api error">>
ExpectedArrowMsg ==
    <<"Expected Arrow result but got JSON.", "Use", "snowflake-api-json", "client">>
ExpectedJsonMsg ==
    <<"Expected JSON result but got Arrow.", "Use", "snowflake-api-arrow", "client">>

----------------------------------------------------------------------------
(* Pure parts of the benchmark functions *)

(* a variant of ConnectorRsAuth that looks for PRIVATE KEY first *)
ConnectorRsAuthKeyFirst(p) ==
    IF ~p.account.some THEN [ok |-> FALSE, err |-> AccountRequiredMsg, method |-> ""]
    ELSE IF ~p.user.some THEN [ok |-> FALSE, err |-> UserRequiredMsg, method |-> ""]
    ELSE IF p.private_key.some THEN
        LET trimmed_key == Trim(p.private_key.val) IN
        IF Contains(trimmed_key, <<"PRIVATE KEY">>)
            THEN [ok |-> FALSE, err |-> UnencryptedKeyMsg, method |-> ""]
        ELSE IF Contains(trimmed_key, <<"ENCRYPTED", "PRIVATE KEY">>)
            THEN [ok |-> TRUE, err |-> NoError, method |-> "KeyPair"]
        ELSE [ok |-> FALSE, err |-> InvalidKeyMsg, method |-> ""]
    ELSE IF p.password.some THEN [ok |-> TRUE, err |-> NoError, method |-> "Password"]
    ELSE [ok |-> FALSE, err |-> AuthRequiredMsg, method |-> ""]

(* The authentication method benchmark_snowflake_connector_rs derives from *)
(* the profile, or the error it returns instead.                           *)
ConnectorRsAuth(p) ==
    IF ~p.account.some THEN [ok |-> FALSE, err |-> AccountRequiredMsg, method |-> ""]
    ELSE IF ~p.user.some THEN [ok |-> FALSE, err |-> UserRequiredMsg, method |-> ""]
    ELSE IF p.private_key.some THEN
        LET trimmed_key == Trim(p.private_key.val) IN
        IF Contains(trimmed_key, <<"ENCRYPTED", "PRIVATE KEY">>)
            THEN [ok |-> TRUE, err |-> NoError, method |-> "KeyPair"]
        ELSE IF Contains(trimmed_key, <<"PRIVATE KEY">>)
            THEN [ok |-> FALSE, err |-> UnencryptedKeyMsg, method |-> ""]
        ELSE [ok |-> FALSE, err |-> InvalidKeyMsg, method |-> ""]
    ELSE IF p.password.some THEN [ok |-> TRUE, err |-> NoError, method |-> "Password"]
    ELSE [ok |-> FALSE, err |-> AuthRequiredMsg, method |-> ""]

(* account and user of the snowflake-api variants *)
ApiRequire(p) ==
    IF ~p.account.some THEN AccountRequiredMsg
    ELSE IF ~p.user.some THEN UserRequiredMsg
    ELSE NoError

(* which constructor the snowflake-api variants call in an iteration *)
ApiAuth(p) ==
    IF p.private_key.some THEN "certificate"
    ELSE IF p.password.some THEN "password"
    ELSE "none"

(* total_rows after a batch of n rows: benchmark_adbc, and the Arrow arm of *)
(* benchmark_snowflake_api_arrow                                            *)
CountBatch(rows, n) == rows + n

(* total_rows after session.query returned n rows *)
CountRows(rows, n) == n

(* total_rows after the Json arm of benchmark_snowflake_api_json *)
CountJson(rows, r) == IF r.is_array THEN r.len ELSE 1

(* total_rows after the Empty arm of the snowflake-api variants *)
CountEmpty(rows) == 0

(* the rows one QueryResult holds *)
RowsOf(r) ==
    IF r.shape = "Arrow" THEN SeqSum(r.batches)
    ELSE IF r.shape = "Json" THEN (IF r.is_array THEN r.len ELSE 1)
    ELSE 0

TotalTime(ts) == SeqSum(ts)
(* a variant of AvgTime that rounds up *)
AvgTimeRoundedUp(total, n) == (total + n - 1) \div n

AvgTime(total, n) == total \div n
MinTime(ts) == SeqMin(ts)
MaxTime(ts) == SeqMax(ts)

BenchmarkResult(name, n, ts, rows) ==
    [client |-> name, iterations |-> n, total_time |-> TotalTime(ts),
     avg_time |-> AvgTime(TotalTime(ts), n), min_time |-> MinTime(ts),
     max_time |-> MaxTime(ts), rows |-> rows]


----------------------------------------------------------------------------
(* run_benchmark and the four benchmark functions *)

renderIdle == source = <<>> /\ first_batch = TRUE /\ stdout = <<>> /\ taken = <<>>
replIdle ==
    /\ stdin = <<>> /\ stderr = <<>> /\ executed = <<>> /\ eofReads = 0
    /\ input = NoneKey /\ consumed = <<>>

InitBench ==
    /\ pc = "run_benchmark"
    /\ outcome = "running"
    /\ error = NoError
    /\ client \in Clients
    /\ iterations \in 0..MaxIterations
    /\ profile \in Profiles
    /\ i = 0
    /\ times = <<>>
    /\ total_rows = 0
    /\ reader = <<>>
    /\ result = NoResult
    /\ summaryPrinted = FALSE
    /\ started = 0
    /\ iterRows = 0
    /\ opened = 0
    /\ live = 0
    /\ clientBuilt = FALSE
    /\ shape = ""
    /\ renderIdle
    /\ replIdle

(* a variant of Fail that gives up the iteration and goes on with the next *)
FailSkipsIteration(msg) ==
    /\ pc' = "loop"
    /\ outcome' = "Err"
    /\ error' = msg
    /\ live' = 0

(* `?` and `return Err(..)`: the function returns the error, run_benchmark *)
(* passes it on, and what the iteration held is dropped.                   *)
Fail(msg) ==
    /\ pc' = "done"
    /\ outcome' = "Err"
    /\ error' = msg
    /\ live' = 0

(* a variant of RecordSample that keeps the iteration's connection *)
RecordSampleKeepsConnection(elapsed) ==
    /\ times' = Append(times, elapsed)
    /\ i' = i + 1
    /\ live' = live
    /\ pc' = "loop"

(* the end of a loop body: the sample is pushed and the iteration's *)
(* connection goes out of scope                                     *)
RecordSample(elapsed) ==
    /\ times' = Append(times, elapsed)
    /\ i' = i + 1
    /\ live' = 0
    /\ pc' = "loop"

SetupOf(c) ==
    IF c = "adbc" THEN "build_database"
    ELSE IF c = "snowflake-connector-rs" THEN "connector_auth"
    ELSE "api_require"

BodyOf(c) ==
    IF c = "adbc" THEN "new_connection"
    ELSE IF c = "snowflake-connector-rs" THEN "create_session"
    ELSE "api_auth"

(* the match on the client name *)
RunBenchmark ==
    /\ pc = "run_benchmark"
    /\ IF client \in KnownClients
          THEN /\ pc' = SetupOf(client)
               /\ UNCHANGED <<outcome, error, live>>
          ELSE Fail(UnknownClientMsg)
    /\ UNCHANGED <<client, iterations, profile, i, times, total_rows, reader, result,
                   summaryPrinted, started, iterRows, opened, clientBuilt, shape>>
    /\ UNCHANGED <<renderVars, replVars>>

(* benchmark_adbc: build_database(profile)? *)
BuildDatabase ==
    /\ pc = "build_database"
    /\ \E r \in {"ok", "driver", "build"} :
          IF r = "ok" THEN pc' = "loop" /\ UNCHANGED <<outcome, error, live>>
          ELSE IF r = "driver" THEN Fail(LoadDriverMsg)
          ELSE Fail(BuildDatabaseMsg)
    /\ UNCHANGED <<client, iterations, profile, i, times, total_rows, reader, result,
                   summaryPrinted, started, iterRows, opened, clientBuilt, shape>>
    /\ UNCHANGED <<renderVars, replVars>>

(* benchmark_snowflake_connector_rs up to SnowflakeClient::new(..)? *)
ConnectorSetup ==
    /\ pc = "connector_auth"
    /\ LET a == ConnectorRsAuth(profile) IN
          IF ~a.ok
             THEN Fail(a.err) /\ UNCHANGED clientBuilt
             ELSE /\ clientBuilt' = TRUE
                  /\ \E ok \in BOOLEAN :
                        IF ok THEN pc' = "loop" /\ UNCHANGED <<outcome, error, live>>
                        ELSE Fail(ClientErrorMsg)
    /\ UNCHANGED <<client, iterations, profile, i, times, total_rows, reader, result,
                   summaryPrinted, started, iterRows, opened, shape>>
    /\ UNCHANGED <<renderVars, replVars>>

(* the snowflake-api variants: account and user are required *)
ApiSetup ==
    /\ pc = "api_require"
    /\ IF ApiRequire(profile) = NoError
          THEN pc' = "loop" /\ UNCHANGED <<outcome, error, live>>
          ELSE Fail(ApiRequire(profile))
    /\ UNCHANGED <<client, iterations, profile, i, times, total_rows, reader, result,
                   summaryPrinted, started, iterRows, opened, clientBuilt, shape>>
    /\ UNCHANGED <<renderVars, replVars>>

(* `for i in 0..iterations`: the next iteration starts its clock *)
IterationStart ==
    /\ pc = "loop"
    /\ i < iterations
    /\ started' = started + 1
    /\ iterRows' = 0
    /\ pc' = BodyOf(client)
    /\ UNCHANGED <<outcome, error, client, iterations, profile, i, times, total_rows,
                   reader, result, summaryPrinted, opened, live, clientBuilt, shape>>
    /\ UNCHANGED <<renderVars, replVars>>

(* the loop is over *)
LoopEnd ==
    /\ pc = "loop"
    /\ ~(i < iterations)
    /\ pc' = "aggregate"
    /\ UNCHANGED <<outcome, error, benchVars, renderVars, replVars>>

(* benchmark_adbc: database.new_connection() *)
AdbcConnect ==
    /\ pc = "new_connection"
    /\ \E ok \in BOOLEAN :
          IF ok THEN /\ pc' = "new_statement"
                     /\ opened' = opened + 1
                     /\ live' = live + 1
                     /\ UNCHANGED <<outcome, error>>
          ELSE Fail(CreateConnectionMsg) /\ UNCHANGED opened
    /\ UNCHANGED <<client, iterations, profile, i, times, total_rows, reader, result,
                   summaryPrinted, started, iterRows, clientBuilt, shape>>
    /\ UNCHANGED <<renderVars, replVars>>

(* benchmark_adbc: connection.new_statement(), statement.set_sql_query *)
AdbcStatement ==
    /\ pc = "new_statement"
    /\ \E r \in {"ok", "statement", "sql"} :
          IF r = "ok" THEN pc' = "execute" /\ UNCHANGED <<outcome, error, live>>
          ELSE IF r = "statement" THEN Fail(CreateStatementMsg)
          ELSE Fail(SetSqlQueryMsg)
    /\ UNCHANGED <<client, iterations, profile, i, times, total_rows, reader, result,
                   summaryPrinted, started, iterRows, opened, clientBuilt, shape>>
    /\ UNCHANGED <<renderVars, replVars>>

(* benchmark_adbc: statement.execute() *)
AdbcExecute ==
    /\ pc = "execute"
    /\ \/ /\ \E rd \in Readers : reader' = rd
          /\ pc' = "fetch"
          /\ UNCHANGED <<outcome, error, live>>
       \/ Fail(ExecuteQueryMsg) /\ UNCHANGED reader
    /\ UNCHANGED <<client, iterations, profile, i, times, total_rows, result,
                   summaryPrinted, started, iterRows, opened, clientBuilt, shape>>
    /\ UNCHANGED <<renderVars, replVars>>

(* benchmark_adbc: reader.next() is Some(Ok(batch)) *)
AdbcFetchBatch ==
    /\ pc = "fetch"
    /\ reader # <<>>
    /\ total_rows' = CountBatch(total_rows, Head(reader))
    /\ iterRows' = iterRows + Head(reader)
    /\ reader' = Tail(reader)
    /\ UNCHANGED <<pc, outcome, error, client, iterations, profile, i, times, result,
                   summaryPrinted, started, opened, live, clientBuilt, shape>>
    /\ UNCHANGED <<renderVars, replVars>>

(* benchmark_adbc: reader.next() is Some(Err(e)) *)
AdbcFetchError ==
    /\ pc = "fetch"
    /\ Fail(BatchErrorMsg)
    /\ reader' = <<>>
    /\ UNCHANGED <<client, iterations, profile, i, times, total_rows, result,
                   summaryPrinted, started, iterRows, opened, clientBuilt, shape>>
    /\ UNCHANGED <<renderVars, replVars>>

(* benchmark_adbc: reader.next() is None, the sample is taken *)
AdbcFetchEnd ==
    /\ pc = "fetch"
    /\ reader = <<>>
    /\ \E elapsed \in Durations : RecordSample(elapsed)
    /\ UNCHANGED <<outcome, error, client, iterations, profile, total_rows, reader,
                   result, summaryPrinted, started, iterRows, opened, clientBuilt, shape>>
    /\ UNCHANGED <<renderVars, replVars>>


(* benchmark_snowflake_connector_rs: client.create_session().await? *)
ConnectorSession ==
    /\ pc = "create_session"
    /\ \E ok \in BOOLEAN :
          IF ok THEN /\ pc' = "query"
                     /\ opened' = opened + 1
                     /\ live' = live + 1
                     /\ UNCHANGED <<outcome, error>>
          ELSE Fail(ClientErrorMsg) /\ UNCHANGED opened
    /\ UNCHANGED <<client, iterations, profile, i, times, total_rows, reader, result,
                   summaryPrinted, started, iterRows, clientBuilt, shape>>
    /\ UNCHANGED <<renderVars, replVars>>

(* benchmark_snowflake_connector_rs: session.query(query).await? and the *)
(* rest of the loop body                                                 *)
ConnectorQuery ==
    /\ pc = "query"
    /\ \/ \E n \in RowCounts, elapsed \in Durations :
             /\ total_rows' = CountRows(total_rows, n)
             /\ iterRows' = n
             /\ RecordSample(elapsed)
             /\ UNCHANGED <<outcome, error>>
       \/ Fail(ClientErrorMsg) /\ UNCHANGED <<total_rows, iterRows, times, i>>
    /\ UNCHANGED <<client, iterations, profile, reader, result, summaryPrinted, started,
                   opened, clientBuilt, shape>>
    /\ UNCHANGED <<renderVars, replVars>>

(* the snowflake-api variants: SnowflakeApi::with_certificate_auth(..)? or *)
(* SnowflakeApi::with_password_auth(..)?, built anew in every iteration    *)
ApiConnect ==
    /\ pc = "api_auth"
    /\ IF ApiAuth(profile) = "none"
          THEN Fail(AuthRequiredMsg) /\ UNCHANGED opened
          ELSE \E ok \in BOOLEAN :
                  IF ok THEN /\ pc' = "exec"
                             /\ opened' = opened + 1
                             /\ live' = live + 1
                             /\ UNCHANGED <<outcome, error>>
                  ELSE Fail(ApiErrorMsg) /\ UNCHANGED opened
    /\ UNCHANGED <<client, iterations, profile, i, times, total_rows, reader, result,
                   summaryPrinted, started, iterRows, clientBuilt, shape>>
    /\ UNCHANGED <<renderVars, replVars>>

RECURSIVE CountBatches(_, _)
CountBatches(rows, batches) ==
    IF batches = <<>> THEN rows
    ELSE CountBatches(CountBatch(rows, Head(batches)), Tail(batches))

(* a variant of ArrowMatch that takes a JSON result for an empty one *)
ArrowMatchJsonAsEmpty(rows, r) ==
    IF r.shape = "Arrow" THEN [ok |-> TRUE, rows |-> CountBatches(rows, r.batches), err |-> NoError]
    ELSE [ok |-> TRUE, rows |-> CountEmpty(rows), err |-> NoError]

(* benchmark_snowflake_api_arrow: `match result` *)
ArrowMatch(rows, r) ==
    IF r.shape = "Arrow" THEN [ok |-> TRUE, rows |-> CountBatches(rows, r.batches), err |-> NoError]
    ELSE IF r.shape = "Json" THEN [ok |-> FALSE, rows |-> rows, err |-> ExpectedArrowMsg]
    ELSE [ok |-> TRUE, rows |-> CountEmpty(rows), err |-> NoError]

(* benchmark_snowflake_api_json: `match result` *)
JsonMatch(rows, r) ==
    IF r.shape = "Json" THEN [ok |-> TRUE, rows |-> CountJson(rows, r), err |-> NoError]
    ELSE IF r.shape = "Arrow" THEN [ok |-> FALSE, rows |-> rows, err |-> ExpectedJsonMsg]
    ELSE [ok |-> TRUE, rows |-> CountEmpty(rows), err |-> NoError]

MatchResult(c, rows, r) ==
    IF c = "snowflake-api-arrow" THEN ArrowMatch(rows, r) ELSE JsonMatch(rows, r)

(* the snowflake-api variants: api.exec(query).await? fails *)
ApiExecError ==
    /\ pc = "exec"
    /\ Fail(ApiErrorMsg)
    /\ UNCHANGED <<client, iterations, profile, i, times, total_rows, reader, result,
                   summaryPrinted, started, iterRows, opened, clientBuilt, shape>>
    /\ UNCHANGED <<renderVars, replVars>>

(* the snowflake-api variants: api.exec(query).await? returns a result, *)
(* and the rest of the loop body                                        *)
ApiExec ==
    /\ pc = "exec"
    /\ \E r \in QueryResults :
          LET m == MatchResult(client, total_rows, r) IN
          /\ shape' = r.shape
          /\ IF m.ok
                THEN /\ total_rows' = m.rows
                     /\ iterRows' = RowsOf(r)
                     /\ \E elapsed \in Durations : RecordSample(elapsed)
                     /\ UNCHANGED <<outcome, error>>
                ELSE Fail(m.err) /\ UNCHANGED <<total_rows, iterRows, times, i>>
    /\ UNCHANGED <<client, iterations, profile, reader, result, summaryPrinted, started,
                   opened, clientBuilt>>
    /\ UNCHANGED <<renderVars, replVars>>

DivideByZeroMsg == <<"divide by zero error when dividing duration by scalar">>

(* the lines after the loop: Duration / u32 panics on a zero divisor *)
Aggregate ==
    /\ pc = "aggregate"
    /\ IF iterations = 0
          THEN /\ pc' = "done"
               /\ outcome' = "Panic"
               /\ error' = DivideByZeroMsg
               /\ UNCHANGED result
          ELSE /\ result' = BenchmarkResult(client, iterations, times, total_rows)
               /\ pc' = "print"
               /\ UNCHANGED <<outcome, error>>
    /\ UNCHANGED <<client, iterations, profile, i, times, total_rows, reader,
                   summaryPrinted, started, iterRows, opened, live, clientBuilt, shape>>
    /\ UNCHANGED <<renderVars, replVars>>

(* run_benchmark: print_benchmark_result(&result); Ok(()) *)
PrintBenchmarkResult ==
    /\ pc = "print"
    /\ summaryPrinted' = TRUE
    /\ outcome' = "Ok"
    /\ pc' = "done"
    /\ UNCHANGED <<error, client, iterations, profile, i, times, total_rows, reader,
                   result, started, iterRows, opened, live, clientBuilt, shape>>
    /\ UNCHANGED <<renderVars, replVars>>

NextBench ==
    \/ RunBenchmark
    \/ BuildDatabase
    \/ ConnectorSetup
    \/ ApiSetup
    \/ IterationStart
    \/ LoopEnd
    \/ AdbcConnect
    \/ AdbcStatement
    \/ AdbcExecute
    \/ AdbcFetchBatch
    \/ AdbcFetchError
    \/ AdbcFetchEnd
    \/ ConnectorSession
    \/ ConnectorQuery
    \/ ApiConnect
    \/ ApiExecError
    \/ ApiExec
    \/ Aggregate
    \/ PrintBenchmarkResult

SpecBench == InitBench /\ [][NextBench]_vars


----------------------------------------------------------------------------
(* print_results *)

DisplayCap == 1000
MinWidth == 10
MaxRenderBatches == 2
WideLen == 14

(* the schema of the rendered result: the lengths of the column names *)
NameLens == <<2, 12>>
NumCols == Len(NameLens)

(* A batch: num_rows rows; every cell of the second column is null, the   *)
(* cells of the first column are three characters long, but for the cell  *)
(* of row wide_row (none when -1), which is WideLen characters long.      *)
RenderBatches ==
    {[num_rows |-> n, wide_row |-> w] :
        n \in {0, 1, DisplayCap, DisplayCap + 1}, w \in {-1, 0, DisplayCap}}
    \cap {b \in [num_rows : Nat, wide_row : Int] : b.wide_row < b.num_rows}

Value(batch, row_idx, col_idx) ==
    IF col_idx = 2 THEN [is_null |-> TRUE, len |-> 0]
    ELSE IF row_idx = batch.wide_row THEN [is_null |-> FALSE, len |-> WideLen]
    ELSE [is_null |-> FALSE, len |-> 3]

(* the length of the text format_value returns: "NULL" for a null *)
FormatLen(v) == IF v.is_null THEN 4 ELSE v.len

SetMax(S) == CHOOSE m \in S : \A x \in S : x <= m

(* the rows of a batch the two loops go over *)
DisplayedRows(num_rows) == Min(num_rows, DisplayCap)

(* a variant of Truncated that takes a batch of exactly DisplayCap rows for cut *)
TruncatedAtCap(num_rows) == num_rows >= DisplayCap

(* whether the truncation line follows the rows *)
Truncated(num_rows) == num_rows > DisplayCap

(* col_widths of one batch *)
ColWidths(batch) ==
    [c \in 1..NumCols |->
        SetMax({Max(NameLens[c], MinWidth)} \cup
               {FormatLen(Value(batch, r, c)) : r \in 0..(DisplayedRows(batch.num_rows) - 1)})]

(* A line of standard output: its kind, the batch it was printed for, the *)
(* row it shows, the widths its cells were padded to, the lengths of the  *)
(* texts in its cells, and the row count it names.                        *)
Line(kind, b, row, pad, lens, rows) ==
    [kind |-> kind, batch |-> b, row |-> row, pad |-> pad, lens |-> lens, rows |-> rows]

NoticeLine(b) == Line("notice", b, -1, <<>>, <<>>, 0)

(* what the loop body prints for a batch with rows *)
TableLines(batch, b) ==
    LET col_widths == ColWidths(batch)
        shown == DisplayedRows(batch.num_rows)
    IN  << Line("header", b, -1, col_widths, NameLens, 0),
           Line("separator", b, -1, col_widths, [c \in 1..NumCols |-> 0], 0) >>
        \o [k \in 1..shown |->
               Line("row", b, k - 1, col_widths,
                    [c \in 1..NumCols |-> FormatLen(Value(batch, k - 1, c))], 0)]
        \o (IF Truncated(batch.num_rows)
               THEN << Line("truncation", b, -1, <<>>, <<>>, batch.num_rows) >>
               ELSE << >>)

(* one turn of the loop of print_results, on the state st of the function *)
PrintBatch(st, batch) ==
    LET b == Len(st.taken) + 1 IN
    IF batch.num_rows = 0
       THEN [ first_batch |-> st.first_batch,
              stdout |-> IF st.first_batch THEN Append(st.stdout, NoticeLine(b))
                         ELSE st.stdout,
              taken |-> Append(st.taken, batch) ]
       ELSE [ first_batch |-> FALSE,
              stdout |-> st.stdout \o TableLines(batch, b),
              taken |-> Append(st.taken, batch) ]

benchIdle ==
    /\ client = "" /\ iterations = 0 /\ profile = NoneStr /\ i = 0 /\ times = <<>>
    /\ total_rows = 0 /\ reader = <<>> /\ result = NoResult /\ summaryPrinted = FALSE
    /\ started = 0 /\ iterRows = 0 /\ opened = 0 /\ live = 0 /\ clientBuilt = FALSE
    /\ shape = ""

InitRender ==
    /\ pc = "print_results"
    /\ outcome = "running"
    /\ error = NoError
    /\ source \in SeqsUpTo(RenderBatches, MaxRenderBatches)
    /\ first_batch = TRUE
    /\ stdout = <<>>
    /\ taken = <<>>
    /\ benchIdle
    /\ replIdle

(* reader.next() is Some(Ok(batch)): the loop body *)
PrintResultsBatch ==
    /\ pc = "print_results"
    /\ source # <<>>
    /\ LET st == PrintBatch([first_batch |-> first_batch, stdout |-> stdout, taken |-> taken],
                            Head(source))
       IN  /\ first_batch' = st.first_batch
           /\ stdout' = st.stdout
           /\ taken' = st.taken
    /\ source' = Tail(source)
    /\ UNCHANGED <<pc, outcome, error, benchVars, replVars>>

(* reader.next() is Some(Err(e)): `batch_result?` returns the error *)
PrintResultsError ==
    /\ pc = "print_results"
    /\ pc' = "done"
    /\ outcome' = "Err"
    /\ error' = BatchErrorMsg
    /\ source' = <<>>
    /\ UNCHANGED <<first_batch, stdout, taken, benchVars, replVars>>

(* reader.next() is None: Ok(()) *)
PrintResultsEnd ==
    /\ pc = "print_results"
    /\ source = <<>>
    /\ pc' = "done"
    /\ outcome' = "Ok"
    /\ UNCHANGED <<error, renderVars, benchVars, replVars>>

NextRender ==
    \/ PrintResultsBatch
    \/ PrintResultsError
    \/ PrintResultsEnd

SpecRender == InitRender /\ [][NextRender]_vars

----------------------------------------------------------------------------
(* execute_query and interactive_mode *)

MaxLines == 2
MaxEofReads == 2

(* the lines standard input may hold, each as read_line returns it *)
InputLines ==
    { <<"\n">>,
      <<" ", "\n">>,
      <<"exit", "\n">>,
      <<" ", "quit", " ", "\n">>,
      <<"select", "\n">>,
      <<"exit", " ", "now", "\n">> }

(* what a statement of the interactive session may yield *)
SessionReaders ==
    SeqsUpTo({[num_rows |-> n, wide_row |-> -1] : n \in RowCounts}, MaxBatches)

(* print_results on the batches of a reader that fails after fail_after *)
(* batches (never when fail_after is -1)                                 *)
RECURSIVE PrintResults(_, _, _)
PrintResults(st, batches, fail_after) ==
    IF fail_after = 0 THEN [ok |-> FALSE, err |-> BatchErrorMsg, stdout |-> st.stdout]
    ELSE IF batches = <<>> THEN [ok |-> TRUE, err |-> NoError, stdout |-> st.stdout]
    ELSE PrintResults(PrintBatch(st, Head(batches)), Tail(batches),
                      IF fail_after > 0 THEN fail_after - 1 ELSE fail_after)

(* the ways execute_query can end: the error of the step that failed, or *)
(* what print_results made of the reader                                 *)
ExecuteQueryOutcomes(out) ==
    {[ok |-> FALSE, err |-> m, stdout |-> out] :
        m \in {CreateConnectionMsg, CreateStatementMsg, SetSqlQueryMsg, ExecuteQueryMsg}}
    \cup {PrintResults([first_batch |-> TRUE, stdout |-> out, taken |-> <<>>], rd, f) :
            rd \in SessionReaders, f \in -1..MaxBatches}

PromptLine == Line("prompt", 0, -1, <<>>, <<>>, 0)

(* io::stdin().read_line(&mut input): the next line, or nothing at the end *)
(* of input                                                                *)
ReadLine(in) == IF in = <<>> THEN <<>> ELSE Head(in)

(* the branch the loop body takes on the line read *)
Dispatch(line) ==
    LET query == Trim(line) IN
    IF query = <<>> THEN "continue"
    ELSE IF query = <<"exit">> \/ query = <<"quit">> THEN "break"
    ELSE "execute"

InitRepl ==
    /\ pc = "interactive_mode"
    /\ outcome = "running"
    /\ error = NoError
    /\ stdin \in SeqsUpTo(InputLines, MaxLines)
    /\ stderr = <<>>
    /\ executed = <<>>
    /\ eofReads = 0
    /\ input = NoneKey
    /\ consumed = <<>>
    /\ source = <<>>
    /\ first_batch = TRUE
    /\ stdout = <<>>
    /\ taken = <<>>
    /\ benchIdle

(* the prompt and the read of a loop turn *)
TakeLine ==
    /\ pc = "interactive_mode"
    /\ stdin = <<>> => eofReads < MaxEofReads
    /\ input' = Some(ReadLine(stdin))
    /\ stdin' = IF stdin = <<>> THEN stdin ELSE Tail(stdin)
    /\ eofReads' = IF stdin = <<>> THEN eofReads + 1 ELSE eofReads
    /\ consumed' = IF stdin = <<>> THEN consumed ELSE Append(consumed, Head(stdin))

(* a loop turn on an empty line: `continue` *)
ReplContinue ==
    /\ TakeLine
    /\ Dispatch(ReadLine(stdin)) = "continue"
    /\ stdout' = Append(stdout, PromptLine)
    /\ UNCHANGED <<pc, outcome, error, stderr, executed, source, first_batch, taken, benchVars>>

(* a loop turn on exit or quit: `break`, then Ok(()) *)
ReplBreak ==
    /\ TakeLine
    /\ Dispatch(ReadLine(stdin)) = "break"
    /\ stdout' = Append(stdout, PromptLine)
    /\ pc' = "done"
    /\ outcome' = "Ok"
    /\ UNCHANGED <<error, stderr, executed, source, first_batch, taken, benchVars>>

(* a variant of ReplExecute that returns the error of execute_query *)
ReplExecuteReturnsError ==
    /\ TakeLine
    /\ Dispatch(ReadLine(stdin)) = "execute"
    /\ executed' = Append(executed, Trim(ReadLine(stdin)))
    /\ \E r \in ExecuteQueryOutcomes(Append(stdout, PromptLine)) :
          /\ stdout' = r.stdout
          /\ IF r.ok THEN UNCHANGED <<pc, outcome, error>>
             ELSE pc' = "done" /\ outcome' = "Err" /\ error' = r.err
    /\ UNCHANGED <<stderr, source, first_batch, taken, benchVars>>

(* a loop turn on a query: execute_query, its error printed *)
ReplExecute ==
    /\ TakeLine
    /\ Dispatch(ReadLine(stdin)) = "execute"
    /\ executed' = Append(executed, Trim(ReadLine(stdin)))
    /\ \E r \in ExecuteQueryOutcomes(Append(stdout, PromptLine)) :
          /\ stdout' = r.stdout
          /\ stderr' = IF r.ok THEN stderr ELSE Append(stderr, r.err)
    /\ UNCHANGED <<pc, outcome, error, source, first_batch, taken, benchVars>>

ReadErrorMsg == <<"stream did not contain valid UTF-8">>

(* a loop turn whose read_line fails: `?` returns the error *)
ReplReadError ==
    /\ pc = "interactive_mode"
    /\ stdin # <<>>
    /\ stdout' = Append(stdout, PromptLine)
    /\ pc' = "done"
    /\ outcome' = "Err"
    /\ error' = ReadErrorMsg
    /\ UNCHANGED <<stdin, stderr, executed, eofReads, input, consumed, source, first_batch, taken,
                   benchVars>>

NextRepl ==
    \/ ReplContinue
    \/ ReplBreak
    \/ ReplExecute
    \/ ReplReadError

SpecRepl == InitRepl /\ [][NextRepl]_vars

----------------------------------------------------------------------------
(* main: the benchmark subcommand, --query, or the interactive session *)

Init == InitBench \/ InitRender \/ InitRepl

Next == NextBench \/ NextRender \/ NextRepl

Spec == Init /\ [][Next]_vars

----------------------------------------------------------------------------
(* Properties of the benchmark *)

Finished == pc = "done"
Succeeded == pc = "done" /\ outcome = "Ok"

(* C1: the row count of the BenchmarkResult of a successful run is the    *)
(* number of rows the final iteration's single execution returned, for    *)
(* every client; it is never the sum over several iterations.             *)
C1_RowsOfOneExecution ==
    Succeeded => result.rows = iterRows

(* C4: when iteration k fails (connect, statement, execute, fetch, or a    *)
(* result of the wrong shape), the run is over at once: the error is       *)
(* returned, exactly k-1 samples were recorded, iteration k was neither    *)
(* retried nor skipped, no further iteration can start and no summary is   *)
(* printed.                                                                *)
C4_FailureAborts ==
    (outcome = "Err" /\ started >= 1) =>
        /\ pc = "done"
        /\ error # NoError
        /\ Len(times) = started - 1
        /\ i = started - 1
        /\ result = NoResult
        /\ ~summaryPrinted
        /\ ~ENABLED NextBench

C4_Witness ==
    /\ outcome = "Err"
    /\ client = "adbc"
    /\ error = BatchErrorMsg
    /\ started = 3
    /\ Len(times) = 2

(* C5: with an iteration count of 0 the run ends with an error returned to *)
(* the caller: no division by zero is performed and no BenchmarkResult is  *)
(* produced.                                                               *)
C5_ZeroIterationsIsAnError ==
    (Finished /\ iterations = 0) =>
        /\ outcome = "Err"
        /\ error # DivideByZeroMsg
        /\ result = NoResult

RECURSIVE SumFirst(_, _)
SumFirst(ts, k) == IF k = 0 THEN 0 ELSE SumFirst(ts, k - 1) + ts[k]

Extrema(r, ts) ==
    /\ \A k \in 1..Len(ts) : r.min_time <= ts[k] /\ ts[k] <= r.max_time
    /\ \E k \in 1..Len(ts) : r.min_time = ts[k]
    /\ \E k \in 1..Len(ts) : r.max_time = ts[k]

(* C6 as stated: total is the sum of the n durations, avg * n = total,     *)
(* min and max are the extrema, and min <= avg <= max.                     *)
C6_AverageExact ==
    Succeeded =>
        /\ Len(times) = iterations
        /\ result.total_time = SumFirst(times, Len(times))
        /\ result.avg_time * iterations = result.total_time
        /\ Extrema(result, times)
        /\ result.min_time <= result.avg_time
        /\ result.avg_time <= result.max_time

(* C6 as amended: total is the sum of the n durations, avg is total / n    *)
(* rounded down to the clock's smallest unit (avg * n <= total <           *)
(* (avg + 1) * n), min and max are the extrema, and min <= avg <= max.     *)
C6_AverageRoundedDown ==
    Succeeded =>
        /\ Len(times) = iterations
        /\ result.total_time = SumFirst(times, Len(times))
        /\ result.avg_time * iterations <= result.total_time
        /\ result.total_time < (result.avg_time + 1) * iterations
        /\ Extrema(result, times)
        /\ result.min_time <= result.avg_time
        /\ result.avg_time <= result.max_time

C6_Witness ==
    /\ Succeeded
    /\ iterations >= 2
    /\ result.total_time % iterations # 0
    /\ result.min_time < result.max_time

(* a PEM text whose label is PRIVATE KEY without ENCRYPTED *)
UnencryptedPem(k) ==
    /\ \E j \in 1..Len(k) : k[j] = "PRIVATE KEY"
    /\ \A j \in 1..Len(k) : k[j] # "ENCRYPTED"

(* a PEM text whose label is ENCRYPTED PRIVATE KEY *)
EncryptedPem(k) ==
    \E j \in 1..(Len(k) - 1) : k[j] = "ENCRYPTED" /\ k[j + 1] = "PRIVATE KEY"

(* every message a snowflake-connector-rs run with an encrypted key can end with *)
EncryptedCaseOutcomes ==
    {ConnectorRsAuth(p).err :
        p \in {q \in Profiles : q.private_key.some /\ EncryptedPem(q.private_key.val)}}
    \cup {ClientErrorMsg, DivideByZeroMsg}

ConnectorPastAuth ==
    client = "snowflake-connector-rs" /\ pc \notin {"run_benchmark", "connector_auth"}

RejectedBeforeClient ==
    /\ pc = "done"
    /\ outcome = "Err"
    /\ ~clientBuilt
    /\ opened = 0
    /\ started = 0
    /\ times = <<>>

EncryptedNeverRejected ==
    (ConnectorPastAuth /\ profile.private_key.some /\ EncryptedPem(profile.private_key.val)) =>
        /\ error \notin {UnencryptedKeyMsg, InvalidKeyMsg, AuthRequiredMsg}
        /\ (profile.account.some /\ profile.user.some) => clientBuilt

(* C9 as stated: snowflake-connector-rs with an unencrypted PEM key fails  *)
(* before the client is built, a session created or an iteration started,  *)
(* with a message no encrypted-key run ends with; an ENCRYPTED PRIVATE KEY *)
(* is never rejected by the key check, with or without a password.         *)
C9_UnencryptedKeyDistinct ==
    /\ (ConnectorPastAuth /\ profile.private_key.some /\ UnencryptedPem(profile.private_key.val)) =>
          /\ RejectedBeforeClient
          /\ error \notin EncryptedCaseOutcomes
    /\ EncryptedNeverRejected

(* C9 as amended: snowflake-connector-rs with an unencrypted PEM key fails *)
(* before the client is built, a session created or an iteration started;  *)
(* when the profile has account and user, the message is one no            *)
(* encrypted-key run ends with, and otherwise it is the missing-field      *)
(* message, whatever the key; an ENCRYPTED PRIVATE KEY is never rejected   *)
(* by the key check, with or without a password.                           *)
C9_UnencryptedKeyRejected ==
    /\ (ConnectorPastAuth /\ profile.private_key.some /\ UnencryptedPem(profile.private_key.val)) =>
          /\ RejectedBeforeClient
          /\ IF profile.account.some /\ profile.user.some
                THEN error \notin EncryptedCaseOutcomes
                ELSE error \in {AccountRequiredMsg, UserRequiredMsg}
    /\ EncryptedNeverRejected

C9_Witness ==
    /\ ConnectorPastAuth
    /\ profile.account.some /\ profile.user.some /\ profile.password.some
    /\ profile.private_key = Some(<<"BEGIN", "RSA", "PRIVATE KEY">>)
    /\ error = UnencryptedKeyMsg
    /\ iterations = MaxIterations

ShapeFailure(alternative) ==
    /\ pc = "done"
    /\ outcome = "Err"
    /\ Contains(error, <<"Use", alternative, "client">>)
    /\ Len(times) = started - 1
    /\ i = started - 1
    /\ result = NoResult
    /\ ~summaryPrinted
    /\ ~ENABLED NextBench

(* C10: snowflake-api-arrow given a JSON result fails with the message     *)
(* that names the snowflake-api-json client, and snowflake-api-json given  *)
(* an Arrow result fails with the message that names the                   *)
(* snowflake-api-arrow client; the failure is in the iteration that saw    *)
(* the result, which records no sample, and no later iteration runs and no *)
(* summary is printed.                                                     *)
C10_ShapeMismatch ==
    /\ (client = "snowflake-api-arrow" /\ shape = "Json") =>
          ShapeFailure("snowflake-api-json") /\ error[1] = "Expected Arrow result but got JSON."
    /\ (client = "snowflake-api-json" /\ shape = "Arrow") =>
          ShapeFailure("snowflake-api-arrow") /\ error[1] = "Expected JSON result but got Arrow."

C10_Witness ==
    /\ client = "snowflake-api-arrow"
    /\ shape = "Json"
    /\ started = 3
    /\ Len(times) = 2
    /\ outcome = "Err"


----------------------------------------------------------------------------
(* Properties of print_results *)

Rendered == pc = "done" /\ outcome = "Ok" /\ source = <<>>

LinesOf(kind) == {p \in 1..Len(stdout) : stdout[p].kind = kind}

TotalRows(batches) == SeqSum([k \in 1..Len(batches) |-> batches[k].num_rows])

(* C3: a batch sequence of zero rows in all (no batch, one empty batch,   *)
(* several empty batches) prints exactly one "no rows" notice and nothing  *)
(* else; a sequence with a batch that has rows prints no notice, also when *)
(* an empty batch comes first.                                             *)
C3_OneNoticeIfNoRows ==
    Rendered =>
        IF TotalRows(taken) = 0
           THEN Len(stdout) = 1 /\ stdout[1].kind = "notice"
           ELSE LinesOf("notice") = {}

(* C7: each column has one width, which pads the header and every data     *)
(* row of the whole sequence and is at least 10, the length of the column  *)
(* name and the length of every cell in the first min(numRows, 1000) rows  *)
(* of every batch; the header and the separator are printed once.          *)
C7_OneWidthPerSequence ==
    (Rendered /\ TotalRows(taken) > 0) =>
        /\ Cardinality(LinesOf("header")) = 1
        /\ Cardinality(LinesOf("separator")) = 1
        /\ \A c \in 1..NumCols :
              \E w \in MinWidth..(MinWidth + WideLen) :
                  /\ w >= NameLens[c]
                  /\ \A b \in 1..Len(taken) :
                        \A r \in 0..(Min(taken[b].num_rows, DisplayCap) - 1) :
                            w >= FormatLen(Value(taken[b], r, c))
                  /\ \A p \in LinesOf("header") \cup LinesOf("row") : stdout[p].pad[c] = w

(* C8: of every batch exactly the first min(numRows, 1000) rows are        *)
(* printed, in order, whatever the other batches hold; the truncation line *)
(* is printed once, naming the batch's row count, when numRows > 1000, and *)
(* not at all otherwise.                                                   *)
C8_RowsPerBatch ==
    \A b \in 1..Len(taken) :
        LET n == taken[b].num_rows
            shown == IF n < DisplayCap THEN n ELSE DisplayCap
            rows == {p \in LinesOf("row") : stdout[p].batch = b}
            cuts == {p \in LinesOf("truncation") : stdout[p].batch = b}
        IN  /\ Cardinality(rows) = shown
            /\ \A p \in rows :
                  /\ stdout[p].row \in 0..(shown - 1)
                  /\ stdout[p].row > 0 =>
                        /\ p - 1 \in rows
                        /\ stdout[p - 1].row = stdout[p].row - 1
            /\ IF n > DisplayCap
                  THEN /\ Cardinality(cuts) = 1
                       /\ \A p \in cuts :
                             /\ stdout[p].rows = n
                             /\ p - 1 \in rows
                             /\ stdout[p - 1].row = shown - 1
                  ELSE cuts = {}

C8_Witness ==
    /\ Rendered
    /\ Len(taken) = 2
    /\ taken[1].num_rows = DisplayCap + 1
    /\ taken[2].num_rows = DisplayCap
    /\ Cardinality(LinesOf("row")) = 2 * DisplayCap
    /\ Cardinality(LinesOf("truncation")) = 1


----------------------------------------------------------------------------
(* Properties of interactive_mode *)

(* C2: the loop stops, and interactive_mode returns normally, once it has  *)
(* read `exit` or `quit`, and once a read has returned zero bytes (end of  *)
(* input): it does not go on prompting at the end of input.                *)
C2_StopsAtExitQuitEof ==
    /\ (input.some /\ Trim(input.val) \in {<<"exit">>, <<"quit">>}) =>
          pc = "done" /\ outcome = "Ok"
    /\ eofReads >= 1 =>
          pc = "done" /\ outcome = "Ok"


RECURSIVE QueriesOf(_)
QueriesOf(lines) ==
    IF lines = <<>> THEN <<>>
    ELSE LET query == Trim(Head(lines)) IN
         IF query = <<>> \/ query = <<"exit">> \/ query = <<"quit">>
            THEN QueriesOf(Tail(lines))
            ELSE <<query>> \o QueriesOf(Tail(lines))

QueryErrors ==
    {CreateConnectionMsg, CreateStatementMsg, SetSqlQueryMsg, ExecuteQueryMsg, BatchErrorMsg}

(* C11: a failing query never ends the interactive loop and never makes    *)
(* interactive_mode return an error: its error goes to standard error, the *)
(* loop turns again with a prompt per turn, and every non-empty line read  *)
(* that is not exit or quit, before or after a failure, is executed as     *)
(* exactly one query, while empty lines execute nothing.  The loop ends    *)
(* only on exit or quit, or on a failed read.                              *)
C11_QueryErrorsKeepLoop ==
    /\ executed = QueriesOf(consumed)
    /\ Len(stderr) <= Len(executed)
    /\ \A k \in 1..Len(stderr) : stderr[k] \in QueryErrors
    /\ error \notin QueryErrors
    /\ Cardinality(LinesOf("prompt")) =
          Len(consumed) + eofReads + (IF outcome = "Err" THEN 1 ELSE 0)
    /\ pc = "done" =>
          \/ /\ outcome = "Ok"
             /\ consumed # <<>>
             /\ Trim(consumed[Len(consumed)]) \in {<<"exit">>, <<"quit">>}
          \/ outcome = "Err" /\ error = ReadErrorMsg
    /\ (pc = "interactive_mode" /\ stdin # <<>>) => ENABLED TakeLine

C11_Witness ==
    /\ pc = "interactive_mode"
    /\ consumed = << <<"select", "\n">>, <<"select", "\n">> >>
    /\ executed = << <<"select">>, <<"select">> >>
    /\ stderr = <<CreateConnectionMsg>>
    /\ Len(stdout) = 5
    /\ stdout[3].kind = "header"
    /\ stdout[5].kind = "row"


----------------------------------------------------------------------------
(* Connections of the benchmark *)

(* C12: in every benchmark variant the iterations run one after another    *)
(* and each opens its own connection (session, api client) after its clock *)
(* was started, whatever reuse_connections says: at most one connection is *)
(* live at any point, it belongs to the iteration under way, and an        *)
(* iteration opens its connection only when the one before has drained its *)
(* results, recorded its sample and dropped its connection.                *)
C12_OneConnectionAtATime ==
    /\ live \in {0, 1}
    /\ opened <= started
    /\ Len(times) <= opened
    /\ started - 1 <= Len(times)
    /\ live = 1 =>
          /\ opened = started
          /\ Len(times) = started - 1
          /\ pc \in {"new_statement", "execute", "fetch", "query", "exec"}
    /\ (client \in KnownClients /\ pc = BodyOf(client)) =>
          /\ live = 0
          /\ reader = <<>>
          /\ opened = started - 1
          /\ Len(times) = started - 1
    /\ pc \in {"loop", "aggregate", "print"} =>
          /\ live = 0
          /\ opened = started
          /\ Len(times) = started
          /\ i = started

C12_Witness ==
    /\ client = "adbc"
    /\ profile.reuse_connections = Some(TRUE)
    /\ pc = "fetch"
    /\ live = 1
    /\ opened = 3
    /\ Len(times) = 2

============================================================================
